---- MODULE Spec2Model ----
(***************************************************************************)
(* Model of functions/weather_backend/server.js: the field projector       *)
(* filterFields and the two relay handlers POST /api/proxy and             *)
(* POST /api/weather.  The source file holds two versions of the server    *)
(* (lines 1-137 and lines 139-431); `variant` says which one is deployed.  *)
(*                                                                         *)
(* JavaScript strings are sequences of one-character strings, so that      *)
(* split, the regular expression and parseInt are computed as the code     *)
(* computes them.  JavaScript values are records tagged by `k`.            *)
(***************************************************************************)
EXTENDS Integers, Sequences, FiniteSets, TLC

VARIABLES data, fields, result, called,
          variant, apiKey, req

vars == <<data, fields, result, called, variant, apiKey, req>>

----------------------------------------------------------------------------
(* JavaScript values *)

Undefined == [k |-> "undefined"]
Null == [k |-> "null"]
Num(n) == [k |-> "number", v |-> n]
Bool(b) == [k |-> "boolean", v |-> b]
Str(s) == [k |-> "string", v |-> s]
Arr(elems) == [k |-> "array", v |-> elems]
\* an object is the sequence of its own <<key, value>> entries, in the order
\* the language enumerates them
Obj(entries) == [k |-> "object", v |-> entries]
\* a function object reached through the prototype chain
Func == [k |-> "function"]
\* the completion of a call that threw
TypeError == [k |-> "TypeError"]

Digits == {"0", "1", "2", "3", "4", "5", "6", "7", "8", "9"}

Letters ==
    {"a", "b", "c", "d", "e", "f", "g", "h", "i", "j", "k", "l", "m",
     "n", "o", "p", "q", "r", "s", "t", "u", "v", "w", "x", "y", "z",
     "A", "B", "C", "D", "E", "F", "G", "H", "I", "J", "K", "L", "M",
     "N", "O", "P", "Q", "R", "S", "T", "U", "V", "W", "X", "Y", "Z"}

\* the class \w of the regular expression
WordChars == Letters \cup Digits \cup {"_"}

DigitValue(c) ==
    CASE c = "0" -> 0 [] c = "1" -> 1 [] c = "2" -> 2 [] c = "3" -> 3
      [] c = "4" -> 4 [] c = "5" -> 5 [] c = "6" -> 6 [] c = "7" -> 7
      [] c = "8" -> 8 [] c = "9" -> 9

DigitChar(n) ==
    CASE n = 0 -> "0" [] n = 1 -> "1" [] n = 2 -> "2" [] n = 3 -> "3"
      [] n = 4 -> "4" [] n = 5 -> "5" [] n = 6 -> "6" [] n = 7 -> "7"
      [] n = 8 -> "8" [] n = 9 -> "9"

RECURSIVE parseInt(_)
\* parseInt of a string of decimal digits (the group (\d+) of the match)
parseInt(s) ==
    IF Len(s) = 0 THEN 0
    ELSE 10 * parseInt(SubSeq(s, 1, Len(s) - 1)) + DigitValue(s[Len(s)])

RECURSIVE NumberToString(_)
\* the property key a number index is converted to by value[index]
NumberToString(n) ==
    IF n < 10 THEN <<DigitChar(n)>>
    ELSE NumberToString(n \div 10) \o <<DigitChar(n % 10)>>

\* a property key that is a canonical array index (a decimal numeral without
\* a leading zero, below 2^32 - 1): these keys are kept in ascending numeric
\* order, before every other key of an object.  Numerals of up to nine
\* digits are all below 2^32 - 1; longer ones do not occur in the model.
IsArrayIndex(key) ==
    /\ Len(key) > 0
    /\ Len(key) <= 9
    /\ \A i \in 1..Len(key) : key[i] \in Digits
    /\ (Len(key) = 1 \/ key[1] # "0")

KeyLength == <<"l", "e", "n", "g", "t", "h">>
KeyConstructor == <<"c", "o", "n", "s", "t", "r", "u", "c", "t", "o", "r">>

\* members every non-nullish value inherits from its prototype; constructor
\* stands for them (toString, valueOf, hasOwnProperty, ... behave alike)
Inherited(key) == IF key = KeyConstructor THEN Func ELSE Undefined

HasOwn(entries, key) == \E i \in 1..Len(entries) : entries[i][1] = key

OwnValue(entries, key) ==
    entries[CHOOSE i \in 1..Len(entries) : entries[i][1] = key][2]

\* value?.[key] for a string key
Get(value, key) ==
    CASE value.k \in {"undefined", "null"} -> Undefined
      [] value.k = "object" ->
           IF HasOwn(value.v, key) THEN OwnValue(value.v, key)
           ELSE Inherited(key)
      [] value.k = "array" ->
           IF IsArrayIndex(key) /\ parseInt(key) < Len(value.v)
           THEN value.v[parseInt(key) + 1]
           ELSE IF key = KeyLength THEN Num(Len(value.v))
           ELSE Inherited(key)
      [] value.k = "string" ->
           IF IsArrayIndex(key) /\ parseInt(key) < Len(value.v)
           THEN Str(<<value.v[parseInt(key) + 1]>>)
           ELSE IF key = KeyLength THEN Num(Len(value.v))
           ELSE Inherited(key)
      [] value.k = "function" ->
           IF key = KeyLength THEN Num(1) ELSE Inherited(key)
      [] OTHER -> Inherited(key)

\* value?.[index] for a number index
GetIndex(value, index) == Get(value, NumberToString(index))

----------------------------------------------------------------------------
(* field.split('.') *)

HasDot(s) == \E i \in 1..Len(s) : s[i] = "."

FirstDot(s) == CHOOSE i \in 1..Len(s) :
    s[i] = "." /\ \A j \in 1..(i - 1) : s[j] # "."

RECURSIVE split(_)
split(s) ==
    IF ~HasDot(s) THEN <<s>>
    ELSE <<SubSeq(s, 1, FirstDot(s) - 1)>>
         \o split(SubSeq(s, FirstDot(s) + 1, Len(s)))

(* part.match(/(\w+)\[(\d+)\]/): the expression is not anchored, so the    *)
(* match may start anywhere in the segment and may end before its end.     *)
(* \w+ and \d+ are greedy; giving one of them fewer characters leaves a    *)
(* word character where "[" is needed, or a digit where "]" is needed, so  *)
(* a match at a position exists exactly when the greedy one does.          *)

\* last position of the run of characters of `class` that starts at i
RunEnd(s, i, class) ==
    CHOOSE e \in i..Len(s) :
        /\ \A j \in i..e : s[j] \in class
        /\ (e = Len(s) \/ s[e + 1] \notin class)

MatchAt(s, i) ==
    /\ s[i] \in WordChars
    /\ LET e == RunEnd(s, i, WordChars)
       IN /\ e + 2 <= Len(s)
          /\ s[e + 1] = "["
          /\ s[e + 2] \in Digits
          /\ LET d == RunEnd(s, e + 2, Digits)
             IN d + 1 <= Len(s) /\ s[d + 1] = "]"

NoMatch == [matched |-> FALSE]

match(part) ==
    IF \E i \in 1..Len(part) : MatchAt(part, i)
    THEN LET i == CHOOSE i \in 1..Len(part) :
                     MatchAt(part, i) /\ \A j \in 1..(i - 1) : ~MatchAt(part, j)
             e == RunEnd(part, i, WordChars)
             d == RunEnd(part, e + 2, Digits)
         IN [matched |-> TRUE,
             key |-> SubSeq(part, i, e),
             index |-> SubSeq(part, e + 2, d)]
    ELSE NoMatch

----------------------------------------------------------------------------
(* filterFields *)

\* one turn of the loop over the parts of a path
StepPart(value, part) ==
    LET m == match(part)
    IN IF m.matched
       THEN GetIndex(Get(value, m.key), parseInt(m.index))
       ELSE Get(value, part)

RECURSIVE Walk(_, _)
\* for (let part of parts) { ...; if (value === undefined) break; }
Walk(value, parts) ==
    IF Len(parts) = 0 THEN value
    ELSE LET next == StepPart(value, Head(parts))
         IN IF next = Undefined THEN Undefined
            ELSE Walk(next, Tail(parts))

\* the value a path reaches in data
Resolve(value, field) == Walk(value, split(field))

IndexOfKey(entries, key) == CHOOSE i \in 1..Len(entries) : entries[i][1] = key

\* number of leading entries whose key is an array index below that of key
IndexKeysBelow(entries, key) ==
    Cardinality({i \in 1..Len(entries) :
        IsArrayIndex(entries[i][1]) /\ parseInt(entries[i][1]) < parseInt(key)})

\* filtered[field] = value on a plain object
SetProperty(entries, key, value) ==
    IF HasOwn(entries, key)
    THEN [entries EXCEPT ![IndexOfKey(entries, key)] = <<key, value>>]
    ELSE IF IsArrayIndex(key)
    THEN LET n == IndexKeysBelow(entries, key)
         IN SubSeq(entries, 1, n) \o <<<<key, value>>>>
            \o SubSeq(entries, n + 1, Len(entries))
    ELSE Append(entries, <<key, value>>)

\* the body of the forEach callback
FilterOne(value, entries, field) ==
    LET reached == Resolve(value, field.v)
    IN IF reached # Undefined THEN SetProperty(entries, field.v, reached)
       ELSE entries

RECURSIVE forEachReversed(_, _, _)
\* the loop visiting the paths from the last to the first
forEachReversed(value, entries, list) ==
    IF Len(list) = 0 THEN entries
    ELSE forEachReversed(value,
                         FilterOne(value, entries, list[Len(list)]),
                         SubSeq(list, 1, Len(list) - 1))

RECURSIVE forEach(_, _, _)
\* fields.forEach(field => ...), filtered being `entries`
forEach(value, entries, list) ==
    IF Len(list) = 0 THEN entries
    ELSE forEach(value, FilterOne(value, entries, Head(list)), Tail(list))

\* !x
Falsy(x) ==
    \/ x.k \in {"undefined", "null"}
    \/ x.k = "number" /\ x.v = 0
    \/ x.k = "string" /\ Len(x.v) = 0
    \/ x.k = "boolean" /\ ~x.v

\* the guard without its test of the length
NoFieldsLengthForgotten(list) == Falsy(list)

\* !fields || fields.length === 0
NoFields(list) == Falsy(list) \/ (list.k = "array" /\ Len(list.v) = 0)

filterFields(value, list) ==
    IF NoFields(list) THEN value
    ELSE IF list.k # "array" THEN TypeError
    ELSE Obj(forEach(value, <<>>, list.v))

----------------------------------------------------------------------------
(* Inputs of filterFields *)

a == <<"a">>
b == <<"b">>
Zero == <<"0">>
One == <<"1">>
a_b == <<"a", "-", "b">>

\* {"a": [{"b": 1}, "xy"], "b": {"b": null, "0": 2}, "0": 3, "1": "s", "a-b": [4]}
DocNested ==
    Obj(<< <<Zero, Num(3)>>,
           <<One, Str(<<"s">>)>>,
           <<a, Arr(<<Obj(<< <<b, Num(1)>> >>), Str(<<"x", "y">>)>>)>>,
           <<b, Obj(<< <<Zero, Num(2)>>, <<b, Null>> >>)>>,
           <<a_b, Arr(<<Num(4)>>)>> >>)

\* {"a": {"0": true, "b": []}, "b": "z"}
DocMapping ==
    Obj(<< <<a, Obj(<< <<Zero, Bool(TRUE)>>, <<b, Arr(<<>>)>> >>)>>,
           <<b, Str(<<"z">>)>> >>)

\* {"a": [[8, 9]], "b": {"length": 5}, "1": 0}
DocMatrix ==
    Obj(<< <<One, Num(0)>>,
           <<a, Arr(<<Arr(<<Num(8), Num(9)>>)>>)>>,
           <<b, Obj(<< <<KeyLength, Num(5)>> >>)>> >>)

\* [5, {"b": 6}]
DocSequence == Arr(<<Num(5), Obj(<< <<b, Num(6)>> >>)>>)

Docs ==
    {DocNested, DocMapping, DocMatrix, DocSequence,
     Obj(<<>>), Str(<<"a", "b">>), Num(7), Null}

\* the first segments and the optional second segments of the paths
Heads ==
    {a, b, Zero, One,
     <<"a", "[", "0", "]">>,
     <<"a", "[", "1", "]">>,
     <<"a", "-", "b", "[", "0", "]">>,
     <<"a", "[", "0", "]", "[", "1", "]">>,
     KeyConstructor}

Tails == {b, KeyLength}

Paths == Heads \cup {h \o <<".">> \o t : h \in Heads, t \in Tails}

MaxFields == 2

RECURSIVE ListsOf(_, _)
\* the sequences of exactly n elements of S
ListsOf(S, n) ==
    IF n = 0 THEN {<<>>}
    ELSE {Append(l, x) : l \in ListsOf(S, n - 1), x \in S}

PathLists == UNION {ListsOf({Str(p) : p \in Paths}, n) : n \in 0..MaxFields}

\* absent (undefined, null) or an array of path strings
FieldInputs == {Undefined, Null} \cup {Arr(l) : l \in PathLists}

FilterInit ==
    /\ data \in Docs
    /\ fields \in FieldInputs
    /\ result = Undefined
    /\ called = FALSE

\* result = filterFields(data, fields)
CallFilterFields ==
    /\ ~called
    /\ called' = TRUE
    /\ result' = filterFields(data, fields)
    /\ UNCHANGED <<data, fields, variant, apiKey, req>>

SpecFilterInit ==
    /\ FilterInit
    /\ variant = "A"
    /\ apiKey = ""
    /\ req = <<>>

SpecFilterNext == CallFilterFields

SpecFilter == SpecFilterInit /\ [][SpecFilterNext]_vars

----------------------------------------------------------------------------
(* The relay handlers *)

MaxReq == 2

Requests == 1..MaxReq

\* timeout: 10000 of the proxy's axios call
ProxyTimeout == 10000

\* axios.get(url) of the weather handler passes no timeout: axios then waits
\* without limit (its default timeout is 0)
NoTimeout == 0

\* process.env.WEATHER_API_KEY: not set, the placeholder of the sample .env,
\* or a key
ApiKeys == {"", "your_api_key_here", "k3y"}

\* the two versions of the server in the source file
Variants == {"A", "B"}

\* the `fields` of a request body: absent (the default null), an array of
\* paths, or a string, which is truthy and has no forEach
FieldChoices ==
    {Null, Arr(<<Str(<<"a", "[", "0", "]", ".", "b">>)>>), Str(<<"a">>)}

\* what the upstream may send: axios resolves on a 2xx status and rejects on
\* any other, with the body as error.response.data
OkStatuses == {200, 201}
ErrStatuses == {404}
\* "" is an empty body; "upstream body" is the object {message: "not found"}
ErrBodies == {"", "upstream body"}
UpstreamData == DocNested

\* error.message of whatever was thrown
ErrorMessage == "error.message"

\* error.response?.data?.message
BodyMessage(body) == IF body = "upstream body" THEN "not found" ELSE ""

Idle ==
    [pc |-> "idle", endpoint |-> "none", required |-> FALSE, fields |-> Null,
     calls |-> 0, timeout |-> NoTimeout,
     outcome |-> "none", upStatus |-> 0, upBody |-> "",
     status |-> 0, success |-> FALSE, error |-> "", data |-> Undefined]

\* res.status(status).json({success, error | data, ...})
Respond(q, status, success, error, body) ==
    [q EXCEPT !.pc = "done", !.status = status, !.success = success,
              !.error = error, !.data = body]

\* await axios(...): one outbound call, the handler suspended on it
Axios(q, timeout) ==
    [q EXCEPT !.pc = "awaiting", !.calls = @ + 1, !.timeout = timeout]

\* the handler of POST /api/proxy up to its await
ProxyHandler(q) ==
    IF ~q.required
    THEN Respond(q, 400, FALSE, "Missing required field: url", Undefined)
    ELSE Axios(q, ProxyTimeout)

KeyAlwaysConfigured == TRUE

\* the test of API_KEY: !API_KEY in the first version, and also the
\* placeholder in the second
KeyConfigured ==
    IF variant = "A" THEN apiKey # ""
    ELSE apiKey # "" /\ apiKey # "your_api_key_here"

ConfigMessage ==
    IF variant = "A" THEN "Missing WEATHER_API_KEY in .env"
    ELSE "Weather API key not configured. Please add WEATHER_API_KEY to .env file"

\* the handler testing the key before the city
WeatherHandlerKeyFirst(q) ==
    IF ~KeyConfigured THEN Respond(q, 500, FALSE, ConfigMessage, Undefined)
    ELSE IF ~q.required
    THEN Respond(q, 400, FALSE, "City name is required", Undefined)
    ELSE Axios(q, NoTimeout)

\* the handler of POST /api/weather up to its await
WeatherHandler(q) ==
    IF ~q.required
    THEN Respond(q, 400, FALSE, "City name is required", Undefined)
    ELSE IF ~KeyConfigured
    THEN Respond(q, 500, FALSE, ConfigMessage, Undefined)
    ELSE Axios(q, NoTimeout)

\* fields ? filterFields(response.data, fields) : response.data
FilteredData(q) ==
    IF Falsy(q.fields) THEN UpstreamData
    ELSE filterFields(UpstreamData, q.fields)

\* the catch block calling axios again when no response came
ProxyCatchRetry(q) ==
    IF q.outcome \in {"noresponse", "timeout"} /\ q.calls < 2
    THEN Axios(q, ProxyTimeout)
    ELSE Respond(q, 500, FALSE, ErrorMessage, Undefined)

\* the catch block of POST /api/proxy; q.outcome says what was thrown:
\* "rejected" has error.response, "noresponse" and "timeout" have only
\* error.request, "local" and "threw" have neither
ProxyCatch(q) ==
    IF variant = "A"
    THEN Respond(q,
                 IF q.outcome = "rejected" THEN q.upStatus ELSE 500,
                 FALSE,
                 IF q.outcome = "rejected" /\ q.upBody # ""
                 THEN q.upBody ELSE ErrorMessage,
                 Undefined)
    ELSE IF q.outcome = "rejected"
    THEN Respond(q, q.upStatus, FALSE, q.upBody, Undefined)
    ELSE IF q.outcome \in {"noresponse", "timeout"}
    THEN Respond(q, 503, FALSE, "Third-party API did not respond", Undefined)
    ELSE Respond(q, 500, FALSE, "Internal server error", Undefined)

\* the catch block of POST /api/weather
WeatherCatch(q) ==
    Respond(q,
            IF q.outcome = "rejected" THEN q.upStatus ELSE 500,
            FALSE,
            IF q.outcome = "rejected" /\ BodyMessage(q.upBody) # ""
            THEN BodyMessage(q.upBody) ELSE ErrorMessage,
            Undefined)

Catch(q) == IF q.endpoint = "proxy" THEN ProxyCatch(q) ELSE WeatherCatch(q)

\* the handler after its await returned a response; a throw of
\* filterFields is caught by the same catch block
Then(q) ==
    IF FilteredData(q) = TypeError
    THEN Catch([q EXCEPT !.outcome = "threw"])
    ELSE Respond(q,
                 IF q.endpoint = "proxy" THEN q.upStatus ELSE 200,
                 TRUE, "", FilteredData(q))

RelayInit ==
    /\ variant \in Variants
    /\ apiKey \in ApiKeys
    /\ req = [r \in Requests |-> Idle]

\* a POST /api/proxy arrives; the handler runs to its response or its await
ProxyRequest(r) ==
    /\ req[r].pc = "idle"
    /\ \E url \in BOOLEAN, list \in FieldChoices :
           req' = [req EXCEPT ![r] =
               ProxyHandler([@ EXCEPT !.endpoint = "proxy",
                                      !.required = url,
                                      !.fields = list])]
    /\ UNCHANGED <<variant, apiKey, data, fields, result, called>>

\* a POST /api/weather arrives; the handler runs to its response or its await
WeatherRequest(r) ==
    /\ req[r].pc = "idle"
    /\ \E city \in BOOLEAN, list \in FieldChoices :
           req' = [req EXCEPT ![r] =
               WeatherHandler([@ EXCEPT !.endpoint = "weather",
                                        !.required = city,
                                        !.fields = list])]
    /\ UNCHANGED <<variant, apiKey, data, fields, result, called>>

\* the upstream answers with a 2xx status: the await returns
UpstreamReplies(r) ==
    /\ req[r].pc = "awaiting"
    /\ \E s \in OkStatuses :
           req' = [req EXCEPT ![r] =
               Then([@ EXCEPT !.outcome = "replied", !.upStatus = s])]
    /\ UNCHANGED <<variant, apiKey, data, fields, result, called>>

\* the upstream answers with an error status: the await throws
UpstreamRejects(r) ==
    /\ req[r].pc = "awaiting"
    /\ \E s \in ErrStatuses, body \in ErrBodies :
           req' = [req EXCEPT ![r] =
               Catch([@ EXCEPT !.outcome = "rejected", !.upStatus = s,
                               !.upBody = body])]
    /\ UNCHANGED <<variant, apiKey, data, fields, result, called>>

\* the request was sent and the connection failed: the await throws
NoResponse(r) ==
    /\ req[r].pc = "awaiting"
    /\ req' = [req EXCEPT ![r] = Catch([@ EXCEPT !.outcome = "noresponse"])]
    /\ UNCHANGED <<variant, apiKey, data, fields, result, called>>

\* the timeout given to axios expires: the await throws
CallTimesOut(r) ==
    /\ req[r].pc = "awaiting"
    /\ req[r].timeout > 0
    /\ req' = [req EXCEPT ![r] = Catch([@ EXCEPT !.outcome = "timeout"])]
    /\ UNCHANGED <<variant, apiKey, data, fields, result, called>>

\* axios fails before anything is sent: the await throws
LocalFailure(r) ==
    /\ req[r].pc = "awaiting"
    /\ req' = [req EXCEPT ![r] = Catch([@ EXCEPT !.outcome = "local"])]
    /\ UNCHANGED <<variant, apiKey, data, fields, result, called>>

Init ==
    /\ RelayInit
    /\ data = Null
    /\ fields = Null
    /\ result = Undefined
    /\ called = FALSE

Next ==
    \E r \in Requests :
        \/ ProxyRequest(r)
        \/ WeatherRequest(r)
        \/ UpstreamReplies(r)
        \/ UpstreamRejects(r)
        \/ NoResponse(r)
        \/ CallTimesOut(r)
        \/ LocalFailure(r)

Spec == Init /\ [][Next]_vars

\* the timer of a call that was given a timeout does fire
FairSpec == Spec /\ \A r \in Requests : WF_vars(CallTimesOut(r))

----------------------------------------------------------------------------
(* Properties of filterFields *)

KeysOf(object) == [i \in 1..Len(object.v) |-> object.v[i][1]]

HasKey(object, key) == object.k = "object" /\ HasOwn(object.v, key)

\* the call returned the mapping built from a non-empty list of paths
Projected == called /\ fields.k = "array" /\ Len(fields.v) > 0

PathAt(i) == fields.v[i].v

\* C4: with paths empty or absent (undefined, null) filterFields returns data
\* itself, whatever JSON value data is, and not a path-keyed mapping.
C4_NoPathsReturnsData ==
    (called /\ fields \in {Undefined, Null, Arr(<<>>)}) => result = data

C4_Witness ==
    /\ called
    /\ fields = Arr(<<>>)
    /\ data = DocSequence
    /\ result = DocSequence

(* The traversal as sections 3 and 4.1 of the specification describe it: a *)
(* segment is a plain key, looked up in a mapping, or a key followed by    *)
(* one bracketed index, looked up in a mapping and then in a sequence.     *)

Missing == [k |-> "missing"]

IsPlainKey(seg) == \A i \in 1..Len(seg) : seg[i] \notin {"[", "]"}

IsIndexed(seg) ==
    \E i \in 2..(Len(seg) - 2) :
        /\ seg[i] = "["
        /\ seg[Len(seg)] = "]"
        /\ IsPlainKey(SubSeq(seg, 1, i - 1))
        /\ \A j \in (i + 1)..(Len(seg) - 1) : seg[j] \in Digits

WellFormed(seg) == IsPlainKey(seg) \/ IsIndexed(seg)

Bracket(seg) == CHOOSE i \in 1..Len(seg) :
    seg[i] = "[" /\ \A j \in 1..(i - 1) : seg[j] # "["

MappingGet(value, key) ==
    IF value.k = "object" /\ HasOwn(value.v, key)
    THEN OwnValue(value.v, key) ELSE Missing

SequenceGet(value, index) ==
    IF value.k = "array" /\ index < Len(value.v)
    THEN value.v[index + 1] ELSE Missing

SegmentGet(value, seg) ==
    IF IsIndexed(seg)
    THEN SequenceGet(MappingGet(value, SubSeq(seg, 1, Bracket(seg) - 1)),
                     parseInt(SubSeq(seg, Bracket(seg) + 1, Len(seg) - 1)))
    ELSE MappingGet(value, seg)

RECURSIVE SegmentsGet(_, _)
SegmentsGet(value, segs) ==
    IF Len(segs) = 0 THEN value
    ELSE LET next == SegmentGet(value, Head(segs))
         IN IF next = Missing THEN Missing
            ELSE SegmentsGet(next, Tail(segs))

AllWellFormed(path) ==
    \A i \in 1..Len(split(path)) : WellFormed(split(path)[i])

\* the value the specification's traversal reaches, or Missing
Reached(value, path) == SegmentsGet(value, split(path))

\* C5: a path is absent from the result whenever a segment of its traversal
\* fails to resolve: key missing from a mapping, index out of bounds, index
\* applied to a non-sequence, key looked up in a non-mapping.
C5_UnresolvedPathAbsent ==
    Projected =>
        \A i \in 1..Len(fields.v) :
            (AllWellFormed(PathAt(i)) /\ Reached(data, PathAt(i)) = Missing)
                => ~HasKey(result, PathAt(i))

\* C6: a path whose segments all resolve is mapped, under the literal path
\* string, to exactly the value reached at the end of the traversal.
C6_ResolvedPathStored ==
    Projected =>
        \A i \in 1..Len(fields.v) :
            (AllWellFormed(PathAt(i)) /\ Reached(data, PathAt(i)) # Missing)
                => /\ HasKey(result, PathAt(i))
                   /\ OwnValue(result.v, PathAt(i)) = Reached(data, PathAt(i))

\* C10: a path with a malformed segment (neither a plain key nor exactly a
\* key followed by one bracketed index) is omitted from the result.
C10_MalformedPathAbsent ==
    Projected =>
        \A i \in 1..Len(fields.v) :
            ~AllWellFormed(PathAt(i)) => ~HasKey(result, PathAt(i))

\* the input paths that resolve, each once, in order of first occurrence
RECURSIVE ResolvedInOrder(_, _)
ResolvedInOrder(list, seen) ==
    IF Len(list) = 0 THEN <<>>
    ELSE LET p == Head(list).v
         IN IF p \in seen \/ Resolve(data, p) = Undefined
            THEN ResolvedInOrder(Tail(list), seen)
            ELSE <<p>> \o ResolvedInOrder(Tail(list), seen \cup {p})

RECURSIVE Ascending(_)
\* the array-index keys of S in ascending numeric order
Ascending(S) ==
    IF S = {} THEN <<>>
    ELSE LET m == CHOOSE x \in S : \A y \in S : parseInt(x) <= parseInt(y)
         IN <<m>> \o Ascending(S \ {m})

IsNotArrayIndex(key) == ~IsArrayIndex(key)

Range(seq) == {seq[i] : i \in 1..Len(seq)}

----------------------------------------------------------------------------
(* Properties of the relay handlers *)

Answered(r) == req[r].pc = "done"

CallFailed(r) ==
    req[r].outcome \in {"rejected", "noresponse", "timeout", "local"}

\* C1: a request without its required field (url, city) is answered 400 with
\* success:false and no outbound call is issued, whatever the API key.
C1_MissingFieldIs400 ==
    \A r \in Requests :
        (req[r].endpoint # "none" /\ ~req[r].required)
            => /\ Answered(r)
               /\ req[r].status = 400
               /\ ~req[r].success
               /\ req[r].error # ""
               /\ req[r].calls = 0

C1_Witness ==
    /\ apiKey = ""
    /\ \E r \in Requests :
           /\ req[r].endpoint = "weather" /\ ~req[r].required
           /\ req[r].status = 400
    /\ \E r \in Requests :
           /\ req[r].endpoint = "proxy" /\ ~req[r].required
           /\ req[r].status = 400

\* C2: a POST /api/weather with a city, handled while the API key is not
\* configured, is answered 500 with success:false and a configuration-error
\* message, and no outbound call is issued.
C2_MissingKeyIs500 ==
    \A r \in Requests :
        (req[r].endpoint = "weather" /\ req[r].required /\ apiKey = "")
            => /\ Answered(r)
               /\ req[r].status = 500
               /\ ~req[r].success
               /\ req[r].error \in
                      {"Missing WEATHER_API_KEY in .env",
                       "Weather API key not configured. Please add WEATHER_API_KEY to .env file"}
               /\ req[r].calls = 0

C2_Witness ==
    /\ apiKey = ""
    /\ \E r \in Requests :
           /\ req[r].endpoint = "weather" /\ req[r].required
           /\ req[r].status = 500

\* C3: when the outbound call of POST /api/proxy fails the response has
\* success:false and (a) relays the upstream's error status and body when
\* the upstream responded, (b) is 503 when no response was received (network
\* failure or timeout), (c) is 500 for any other local failure.
C3_ProxyFailureTriage ==
    \A r \in Requests :
        (Answered(r) /\ req[r].endpoint = "proxy" /\ CallFailed(r))
            => /\ ~req[r].success
               /\ req[r].outcome = "rejected"
                      => /\ req[r].status = req[r].upStatus
                         /\ req[r].error = req[r].upBody
               /\ req[r].outcome \in {"noresponse", "timeout"}
                      => req[r].status = 503
               /\ req[r].outcome = "local" => req[r].status = 500

\* C8: a request triggers at most one outbound call, exactly one when it
\* passes validation (and the key check of /api/weather), none otherwise;
\* the call is not repeated whatever its outcome.
C8_OneCallPerRequest ==
    \A r \in Requests :
        /\ req[r].calls <= 1
        /\ req[r].endpoint # "none" =>
               (req[r].calls = 1 <=>
                    /\ req[r].required
                    /\ req[r].endpoint = "weather" => KeyConfigured)

C8_Witness ==
    \E r1, r2 \in Requests :
        /\ Answered(r1) /\ req[r1].outcome = "noresponse" /\ req[r1].calls = 1
        /\ Answered(r2) /\ req[r2].outcome = "replied" /\ req[r2].calls = 1

\* C9: every request is eventually answered: the outbound call ends in
\* completion or in the timeout, also when the upstream never replies.
C9_EveryRequestAnswered ==
    \A r \in Requests : (req[r].pc = "awaiting") ~> Answered(r)

====
